---- MODULE Spec2Model ----
(***************************************************************************)
(* Model of PDFToolManager (src/frontend/js/app.js): the staging state of  *)
(* the Organize PDF tool (pickedFiles, the #file-list DOM children,        *)
(* organizePages), the asynchronous page expansion (addPdfAsPages /        *)
(* addPdfPageItem), page drag sorting, and the reconstruction run          *)
(* (processFiles / runOrganize) with its requests to /api/pdf/reorder and  *)
(* /api/pdf/merge.                                                         *)
(*                                                                         *)
(* One action is one browser task: an event handler, or the continuation   *)
(* of an async function after an awaited promise of the PDF library or of  *)
(* fetch settles, together with the microtasks that follow it.             *)
(***************************************************************************)
EXTENDS Integers, Sequences, FiniteSets, TLC

\* ---------------------------------------------------------------- bounds
MaxFiles == 3     \* File objects the user can hand to the tool in a session
MaxPages == 2     \* largest page count of a document
MaxItems == 3     \* items the file list is allowed to grow to
MaxTimers == 1    \* status timeouts pending when the run button is clicked
MaxIds == 4       \* file items created in a session before a drop refreshes the list

\* ------------------------------------------------------------- the files
Files == 1..MaxFiles

\* What the PDF library reports for a File: 0 stands for a document that
\* getDocument rejects (addPdfAsPages line 1530 throws), otherwise numPages.
\* File 1 is the unreadable one, the others have 1..MaxPages pages.
NumPages(f) == IF f = 1 THEN 0 ELSE ((f - 2) % MaxPages) + 1

\* one more File, an image; the files of Files are PDFs
ImageFile == MaxFiles + 1

None == 0            \* null / undefined reference (files and tasks are >= 1)
NaN == -1            \* parseInt(undefined)
Undefined == << >>   \* a dataset attribute that was never set
NoItem == << >>      \* null / undefined where a DOM element is expected
Comma == 10          \* the ',' character; characters 0..9 are the digits

\* ---------------------------------------------------- string conversions
\* String(n) for a non-negative integer, as a sequence of digit characters:
\* what `item.dataset.fileIndex = fileIndex` stores.
RECURSIVE ToStr(_)
ToStr(n) == IF n < 10 THEN <<n>> ELSE ToStr(n \div 10) \o <<n % 10>>

\* parseInt(s): the decimal value of the leading digits, NaN if there is none.
RECURSIVE ParseDigits(_, _)
ParseDigits(s, acc) ==
  IF s = << >> \/ Head(s) > 9 THEN acc
  ELSE ParseDigits(Tail(s), 10 * acc + Head(s))

ParseInt(s) == IF s = << >> \/ Head(s) > 9 THEN NaN ELSE ParseDigits(s, 0)

\* pages.join(',')
RECURSIVE Join(_)
Join(pages) ==
  IF pages = << >> THEN << >>
  ELSE IF Len(pages) = 1 THEN ToStr(pages[1])
  ELSE ToStr(pages[1]) \o <<Comma>> \o Join(Tail(pages))

\* The extraction service reading the `order` field back: split on ','.
RECURSIVE SplitOrder(_, _)
SplitOrder(s, cur) ==
  IF s = << >> THEN <<ParseInt(cur)>>
  ELSE IF Head(s) = Comma THEN <<ParseInt(cur)>> \o SplitOrder(Tail(s), << >>)
  ELSE SplitOrder(Tail(s), Append(cur, Head(s)))

\* ------------------------------------------------------- sequence helpers
\* s without its element at (1-based) position i
RemoveAt(s, i) == SubSeq(s, 1, i - 1) \o SubSeq(s, i + 1, Len(s))

\* Array.prototype.splice(index, 1) for a 0-based index >= 0
Splice(s, index) ==
  IF index + 1 <= Len(s) THEN RemoveAt(s, index + 1) ELSE s

Range(s) == {s[i] : i \in 1..Len(s)}

\* The sequences of k distinct elements of S
RECURSIVE DistinctSeqsOfLen(_, _)
DistinctSeqsOfLen(S, k) ==
  IF k = 0 THEN {<< >>}
  ELSE UNION {{Append(q, x) : x \in S \ Range(q)} :
                q \in DistinctSeqsOfLen(S, k - 1)}

\* ------------------------------------------------------------- the state
VARIABLES
  currentTool,       \* this.currentTool: "none" (null) or the tool key
  pickedFiles,       \* this.pickedFiles
  fileList,          \* children of #file-list, in DOM order
  organizePages,     \* this.organizePages
  tasks,             \* addPdfAsPages calls that have not returned yet
  nextId,            \* number of addFileItem calls so far + 1
  used,              \* File objects already handed to the tool
  pageSortInstalled, \* setupPageDragSort listeners are on #file-list
  fileSortInstalled, \* enableFileDragSort listener sets on #file-list (2: two or more)
  placeholder,       \* #dropzone-placeholder is displayed
  status,            \* #status: [text, type]
  runBtnDisabled,    \* runBtn.disabled
  timers,            \* pending timeouts of line 587 (clearStatus after 3 s)
  run,               \* the runOrganize call that has not returned yet
  net,               \* requests sent whose response has not arrived
  reqLog,            \* requests issued by the current / last run
  downloaded,        \* blob handed to downloadBlob by the current / last run
  lastError,         \* error caught by processFiles in the current / last run
  failedBatch,       \* history: index of the batch whose extraction failed, or NaN
  planned,           \* history: the batches planned when the run was submitted
  included,          \* history: the included page items when the run was submitted
  submitted,         \* history: the staging state when the run was submitted
  quiet,             \* history: only the run and the status timer acted since submit
  fresh,             \* history: no file intake since the last setTool / goHome
  abandoned          \* history: setTool / goHome happened while the last submitted run was in flight

stagingVars == <<pickedFiles, fileList, organizePages>>
expandVars == <<tasks, nextId, used, pageSortInstalled, fileSortInstalled>>
uiVars == <<currentTool, placeholder, status, runBtnDisabled, timers>>
runVars == <<run, net>>
histVars == <<reqLog, downloaded, lastError, failedBatch, planned, included,
             submitted, quiet, fresh, abandoned>>
vars == <<stagingVars, expandVars, uiVars, runVars, histVars>>

\* ------------------------------------------------------------ DOM items
\* A child of #file-list.  `file` is the File captured by the item's
\* closures (originalFile / file); dataset attributes are strings.
PageItem(id, file, fileIndex, pageNum) ==
  [id |-> id, classes |-> {"file-item", "page-item"}, index |-> Undefined,
   fileIndex |-> ToStr(fileIndex), pageNum |-> ToStr(pageNum),
   file |-> file, checked |-> TRUE]

RegularFileItem(id, file, index) ==
  [id |-> id, classes |-> {"file-item"}, index |-> ToStr(index),
   fileIndex |-> Undefined, pageNum |-> Undefined,
   file |-> file, checked |-> FALSE]

IsPage(item) == "page-item" \in item.classes

\* position of the item with this id in a list of items, 0 if absent
PosOf(list, id) ==
  IF \E i \in 1..Len(list) : list[i].id = id
  THEN CHOOSE i \in 1..Len(list) : list[i].id = id
  ELSE 0

NoStatus == [text |-> "", type |-> ""]
Idle == [pc |-> "idle", batches |-> << >>, i |-> 0, extractedPdfs |-> << >>]
NoSubmit == [pickedFiles |-> << >>, fileList |-> << >>, organizePages |-> << >>]

Init ==
  /\ currentTool = "none"
  /\ pickedFiles = << >>
  /\ fileList = << >>
  /\ organizePages = << >>
  /\ tasks = {}
  /\ nextId = 1
  /\ used = {}
  /\ pageSortInstalled = FALSE
  /\ fileSortInstalled = 0
  /\ placeholder = TRUE
  /\ status = NoStatus
  /\ runBtnDisabled = FALSE
  /\ timers = 0
  /\ run = Idle
  /\ net = << >>
  /\ reqLog = << >>
  /\ downloaded = << >>
  /\ lastError = << >>
  /\ failedBatch = NaN
  /\ planned = << >>
  /\ included = << >>
  /\ submitted = NoSubmit
  /\ quiet = FALSE
  /\ fresh = TRUE
  /\ abandoned = FALSE

\* ------------------------------------------------------------- the tools
\* getTools(): the tool keys of this model and their accept / multiple.
Tools == {"reorder"}
\* the tools of the sessions that visit several tools: page-granular, sortable
\* whole-file (multiple: true), single-file (multiple: false)
SessionTools == {"reorder", "merge", "split"}
\* the files the user picks in those sessions: two PDFs and an image
SessionFiles == {2, 3, ImageFile}
\* the tools whose setupUI calls enableFileDragSort (lines 604-606, 941-943)
SortableTools == {"merge", "images-to-pdf"}
ToolAccept(tool) ==
  IF tool = "images-to-pdf" THEN "image/*" ELSE "application/pdf"
ToolMultiple(tool) == tool \in {"reorder", "merge", "rotate", "images-to-pdf"}

\* File.type of the files of this model; f.type.match(acceptPattern)
FileType(f) == IF f = ImageFile THEN "image/png" ELSE "application/pdf"
Accepted(tool, f) ==
  IF ToolAccept(tool) = "image/*" THEN FileType(f) \in {"image/png", "image/jpeg"}
  ELSE FileType(f) = ToolAccept(tool)

\* ------------------------------------------------------------- histories
\* The history of a run is kept while the run is in flight and until the
\* first step that follows its end; the snapshot of the staging state is
\* kept as long as nothing but the run itself has acted.
Observe ==
  /\ quiet' = FALSE
  /\ submitted' = NoSubmit
  /\ IF run.pc = "idle"
     THEN /\ reqLog' = << >> /\ downloaded' = << >> /\ lastError' = << >>
          /\ failedBatch' = NaN /\ planned' = << >> /\ included' = << >>
     ELSE UNCHANGED <<reqLog, downloaded, lastError, failedBatch, planned,
                      included>>

\* ------------------------------------------------------------ navigation
\* a setTool that also enables the run button
SetToolEnabling(key) ==
  /\ currentTool' = key
  /\ pickedFiles' = << >>
  /\ fileList' = << >>
  /\ placeholder' = TRUE
  /\ status' = NoStatus
  /\ organizePages' =
       IF currentTool = "reorder" \/ key = "reorder" THEN << >>
       ELSE organizePages
  /\ fileSortInstalled' =
       IF key \in SortableTools
       THEN (IF fileSortInstalled < 2 THEN fileSortInstalled + 1 ELSE 2)
       ELSE fileSortInstalled
  /\ runBtnDisabled' = FALSE
  /\ Observe
  /\ fresh' = TRUE
  /\ abandoned' = (run.pc # "idle")
  /\ UNCHANGED <<tasks, nextId, used, pageSortInstalled, timers, runVars>>

\* setTool(key), reached from handleRoute
SetTool(key) ==
  /\ currentTool' = key
  /\ pickedFiles' = << >>                    \* clearFiles
  /\ fileList' = << >>
  /\ placeholder' = TRUE
  /\ status' = NoStatus                      \* clearStatus
  /\ organizePages' =                        \* line 335 / setupOrganizeMode
       IF currentTool = "reorder" \/ key = "reorder" THEN << >>
       ELSE organizePages
  /\ fileSortInstalled' =                    \* setupUI: enableFileDragSort
       IF key \in SortableTools
       THEN (IF fileSortInstalled < 2 THEN fileSortInstalled + 1 ELSE 2)
       ELSE fileSortInstalled
  /\ Observe
  /\ fresh' = TRUE
  /\ abandoned' = (run.pc # "idle")
  /\ UNCHANGED <<tasks, nextId, used, pageSortInstalled, runBtnDisabled, timers,
                 runVars>>

\* goHome(): currentTool = null, clearFiles(); organizePages is not reset
GoHome ==
  /\ currentTool # "none"
  /\ currentTool' = "none"
  /\ pickedFiles' = << >>
  /\ fileList' = << >>
  /\ placeholder' = TRUE
  /\ Observe
  /\ fresh' = TRUE
  /\ abandoned' = (run.pc # "idle")
  /\ UNCHANGED <<organizePages, status, expandVars, runBtnDisabled, timers, runVars>>

\* ---------------------------------------------------------------- intake
\* addFileItem(file, index) up to its first await, on the staging state st =
\* [fileList, tasks, nextId]: in the organize tool a PDF starts
\* addPdfAsPages, which suspends at file.arrayBuffer(); otherwise the
\* file item is appended at once.
AddFileItem(st, tool, file, index) ==
  IF file = None
  THEN st      \* file.type / file.name of undefined: the promise rejects
  ELSE IF tool = "reorder" /\ FileType(file) = "application/pdf"
  THEN [st EXCEPT !.tasks = @ \cup {[id |-> st.nextId, file |-> file,
                                      fileIndex |-> index, pc |-> "load",
                                      pageNum |-> 0]},
                  !.nextId = @ + 1]
  ELSE [st EXCEPT !.fileList = Append(@, RegularFileItem(<<st.nextId, 0>>,
                                                         file, index)),
                  !.nextId = @ + 1]

\* the loop of handleAddFiles (lines 407-422) over the rest of the list, on
\* st = [pickedFiles, fileList, tasks, nextId, status]
RECURSIVE AddFilesLoop(_, _, _)
AddFilesLoop(st, tool, list) ==
  IF list = << >> THEN st
  ELSE LET f == Head(list) IN
    IF ~Accepted(tool, f)
    THEN AddFilesLoop([st EXCEPT !.status =
                         [text |-> "File is not accepted for this tool",
                          type |-> "error"]],
                      tool, Tail(list))
    ELSE IF ~ToolMultiple(tool) /\ Len(st.pickedFiles) > 0
    THEN AddFileItem([st EXCEPT !.pickedFiles = <<f>>, !.fileList = << >>],
                     tool, f, 0)                                   \* break
    ELSE AddFilesLoop(
           AddFileItem([st EXCEPT !.pickedFiles = Append(@, f)],
                       tool, f, Len(st.pickedFiles)),
           tool, Tail(list))

\* refreshFileList(): empty the list, then addFileItem for every picked file
RECURSIVE RefreshLoop(_, _, _, _)
RefreshLoop(st, tool, files, index) ==
  IF index >= Len(files) THEN st
  ELSE RefreshLoop(AddFileItem(st, tool, files[index + 1], index),
                   tool, files, index + 1)

RefreshFileList(st, tool) ==
  RefreshLoop([st EXCEPT !.fileList = << >>], tool, st.pickedFiles, 0)

\* items the expansions in flight and the picked files `files` will still
\* add to the list
RECURSIVE Pending(_)
Pending(ts) ==
  IF ts = {} THEN 0
  ELSE LET t == CHOOSE x \in ts : TRUE
           left == IF NumPages(t.file) = 0 THEN 1
                   ELSE IF t.pc = "render" THEN NumPages(t.file) - t.pageNum
                   ELSE IF t.pc = "getPage" THEN NumPages(t.file) - t.pageNum + 1
                   ELSE NumPages(t.file)
       IN left + Pending(ts \ {t})

RECURSIVE ItemsOf(_)
ItemsOf(files) ==
  IF files = << >> THEN 0
  ELSE (IF Head(files) = None THEN 0
        ELSE IF NumPages(Head(files)) = 0 THEN 1 ELSE NumPages(Head(files)))
       + ItemsOf(Tail(files))

StagingSt ==
  [pickedFiles |-> pickedFiles, fileList |-> fileList, tasks |-> tasks,
   nextId |-> nextId, status |-> status]

\* handleAddFiles(list) for a non-empty FileList of files not seen before
HandleAddFiles(list) ==
  /\ currentTool # "none"
  /\ Len(fileList) + Pending(tasks) + ItemsOf(list) <= MaxItems
  /\ LET st == AddFilesLoop([StagingSt EXCEPT !.status = NoStatus],
                            currentTool, list)
     IN /\ pickedFiles' = st.pickedFiles
        /\ fileList' = st.fileList
        /\ tasks' = st.tasks
        /\ nextId' = st.nextId
        /\ status' = st.status
  /\ placeholder' = FALSE                    \* showFilesView
  /\ used' = used \cup Range(list)
  /\ Observe
  /\ fresh' = FALSE
  /\ UNCHANGED abandoned
  /\ UNCHANGED <<organizePages, pageSortInstalled, fileSortInstalled, currentTool,
                 runBtnDisabled, timers, runVars>>

\* a removeFile that takes the item out of the list and leaves the other
\* items as they are
RemoveFileNoRefresh(index) ==
  /\ pickedFiles' = Splice(pickedFiles, index)
  /\ fileList' = SelectSeq(fileList, LAMBDA item : item.index # ToStr(index))
  /\ placeholder' = IF Len(pickedFiles') = 0 THEN TRUE ELSE placeholder
  /\ Observe
  /\ UNCHANGED <<fresh, abandoned>>
  /\ UNCHANGED <<organizePages, expandVars, currentTool, status,
                 runBtnDisabled, timers, runVars>>

\* removeFile(index): the remove button of a file item
RemoveFile(index) ==
  /\ Pending(tasks) + ItemsOf(Splice(pickedFiles, index)) <= MaxItems
  /\ LET st == RefreshFileList(
                 [StagingSt EXCEPT !.pickedFiles = Splice(@, index)],
                 currentTool)
     IN /\ pickedFiles' = st.pickedFiles
        /\ fileList' = st.fileList
        /\ tasks' = st.tasks
        /\ nextId' = st.nextId
        /\ placeholder' = IF Len(st.pickedFiles) = 0 THEN TRUE ELSE placeholder
  /\ Observe
  /\ UNCHANGED <<fresh, abandoned>>
  /\ UNCHANGED <<organizePages, used, pageSortInstalled, fileSortInstalled,
                 currentTool, status, runBtnDisabled, timers, runVars>>

\* ------------------------------------------------------ page expansion
\* The page loop of addPdfAsPages after page pageNum of task t is finished:
\* the next pdf.getPage is awaited, or the loop ends, setupPageDragSort()
\* registers its listeners and the call returns.
NextPage(t) ==
  IF t.pageNum < NumPages(t.file)
  THEN /\ tasks' = (tasks \ {t}) \cup
                     {[t EXCEPT !.pc = "getPage", !.pageNum = @ + 1]}
       /\ UNCHANGED pageSortInstalled
  ELSE /\ tasks' = tasks \ {t}
       /\ pageSortInstalled' = TRUE

\* addPdfAsPages: file.arrayBuffer() and getDocument() have settled
LoadDone(t) ==
  /\ t \in tasks /\ t.pc = "load"
  /\ IF NumPages(t.file) = 0
     THEN \* catch: addRegularFileItem(file, fileIndex)
          /\ fileList' = Append(fileList,
                                RegularFileItem(<<t.id, 0>>, t.file, t.fileIndex))
          /\ tasks' = tasks \ {t}
          /\ UNCHANGED pageSortInstalled
     ELSE /\ NextPage(t)
          /\ UNCHANGED fileList
  /\ Observe
  /\ UNCHANGED <<fresh, abandoned>>
  /\ UNCHANGED <<pickedFiles, organizePages, nextId, used, fileSortInstalled,
                 uiVars, runVars>>

\* addPdfPageItem: pdf.getPage(pageNum) has resolved; the item is built and
\* appended to the list, page.render() is awaited
GetPageDone(t) ==
  /\ t \in tasks /\ t.pc = "getPage"
  /\ fileList' = Append(fileList,
                        PageItem(<<t.id, t.pageNum>>, t.file, t.fileIndex,
                                 t.pageNum))
  /\ tasks' = (tasks \ {t}) \cup {[t EXCEPT !.pc = "render"]}
  /\ Observe
  /\ UNCHANGED <<fresh, abandoned>>
  /\ UNCHANGED <<pickedFiles, organizePages, nextId, used, pageSortInstalled,
                 fileSortInstalled,
                 uiVars, runVars>>

\* the entry addPdfPageItem pushes on organizePages (lines 1630-1635); the
\* element is kept with the dataset.fileIndex it carries
PageEntry(t) ==
  [element |-> <<t.id, t.pageNum>>, fileIndex |-> ToStr(t.fileIndex),
   file |-> t.file, pageNum |-> t.pageNum]

\* addPdfPageItem: page.render() has settled; on success the page is
\* pushed on organizePages, on failure the catch only logs
RenderDone(t, ok) ==
  /\ t \in tasks /\ t.pc = "render"
  /\ organizePages' = IF ok THEN Append(organizePages, PageEntry(t))
                      ELSE organizePages
  /\ NextPage(t)
  /\ Observe
  /\ UNCHANGED <<fresh, abandoned>>
  /\ UNCHANGED <<pickedFiles, fileList, nextId, used, fileSortInstalled,
                 uiVars, runVars>>

\* ------------------------------------------------------- page operations
\* removePage(pageItem): the remove button of a page item
RemovePage(id) ==
  /\ organizePages' = SelectSeq(organizePages, LAMBDA p : p.element # id)
  /\ fileList' = SelectSeq(fileList, LAMBDA item : item.id # id)
  /\ Observe
  /\ UNCHANGED <<fresh, abandoned>>
  /\ UNCHANGED <<pickedFiles, expandVars, uiVars, runVars>>

\* the user clicks the checkbox of a page item
ToggleCheckbox(id) ==
  /\ fileList' = [k \in 1..Len(fileList) |->
                    IF fileList[k].id = id
                    THEN [fileList[k] EXCEPT !.checked = ~@]
                    ELSE fileList[k]]
  /\ Observe
  /\ UNCHANGED <<fresh, abandoned>>
  /\ UNCHANGED <<pickedFiles, organizePages, expandVars, uiVars,
                 runVars>>

\* ------------------------------------------------------------- page drag
Min(S) == CHOOSE x \in S : \A y \in S : x <= y

\* getDragAfterElement(container, y), the definition at lines 1899-1912 (it
\* replaces the one at 1023-1036, a class has one method per name), while
\* the item `dragging` carries class 'dragging'.  The items are laid out
\* top to bottom, y is the number of non-dragged children whose midpoint is
\* above the pointer; a child has offset < 0 when its midpoint is below the
\* pointer, and the closest such child is the first one.
GetDragAfterElement(container, y, dragging) ==
  LET others == SelectSeq(container, LAMBDA item : item.id # dragging)
      cand == {k \in 1..Len(others) :
                 "organize-page-item" \in others[k].classes /\ k > y}
  IN IF cand = {} THEN NoItem ELSE others[Min(cand)].id

\* container.appendChild(el) for a child el of the container
AppendChild(container, id) ==
  LET k == PosOf(container, id) IN Append(RemoveAt(container, k), container[k])

\* container.insertBefore(el, ref) for children el # ref
InsertBefore(container, id, ref) ==
  LET k == PosOf(container, id)
      rest == RemoveAt(container, k)
      r == PosOf(rest, ref)
  IN SubSeq(rest, 1, r - 1) \o <<container[k]>> \o SubSeq(rest, r, Len(rest))

\* a dragover listener that also renumbers the pages by their position
PageDragOverRenumbering(container, draggedElement, y) ==
  LET afterElement == GetDragAfterElement(container, y, draggedElement)
      moved == IF afterElement = NoItem
               THEN AppendChild(container, draggedElement)
               ELSE InsertBefore(container, draggedElement, afterElement)
  IN [k \in 1..Len(moved) |-> [moved[k] EXCEPT !.pageNum = ToStr(k)]]

\* the dragover listener of setupPageDragSort (lines 1707-1717) with
\* draggedElement set, the pointer at y
PageDragOver(container, draggedElement, y) ==
  LET afterElement == GetDragAfterElement(container, y, draggedElement)
  IN IF afterElement = NoItem
     THEN AppendChild(container, draggedElement)
     ELSE InsertBefore(container, draggedElement, afterElement)

\* One drag gesture on a page item: dragstart (lines 1606, 1692), dragover
\* events the last of which has the pointer at y, dragend (1611, 1700).
\* The listeners of setupPageDragSort exist once an expansion has
\* completed; the position of the item after the gesture is the one the
\* last dragover gives it.
DragPage(id, y) ==
  /\ pageSortInstalled
  /\ fileList' = PageDragOver(fileList, id, y)
  /\ Observe
  /\ UNCHANGED <<fresh, abandoned>>
  /\ UNCHANGED <<pickedFiles, organizePages, expandVars, uiVars, runVars>>

\* ------------------------------------------------------------- file drag
\* this.pickedFiles[index]: undefined when index is NaN or out of range
At(files, index) ==
  IF index >= 0 /\ index < Len(files) THEN files[index + 1] ELSE None

\* the drop listener of one enableFileDragSort (lines 1008-1020) with its
\* draggedIndex set (any value but null, NaN included), on st =
\* [pickedFiles, fileList, tasks, nextId, status]
FileDrop(st, tool) ==
  LET newOrder == [k \in 1..Len(st.fileList) |-> ParseInt(st.fileList[k].index)]
      newFiles == [k \in 1..Len(newOrder) |-> At(st.pickedFiles, newOrder[k])]
  IN RefreshFileList([st EXCEPT !.pickedFiles = newFiles], tool)

\* the drop listeners of n enableFileDragSort calls, in registration order
RECURSIVE DropLoop(_, _, _)
DropLoop(st, tool, n) ==
  IF n = 0 THEN st ELSE DropLoop(FileDrop(st, tool), tool, n - 1)

\* One drag gesture on a draggable item that ends with a drop on the list,
\* while listeners of enableFileDragSort are registered: dragstart (line
\* 985 sets draggedIndex, line 1692 sets draggedElement for a page item),
\* dragover events the last with the pointer at y, drop, dragend.  Each
\* dragover listener of enableFileDragSort calls
\* this.getDragAfterElement(e.clientY), which is the method of lines
\* 1899-1912: container is a number, container.querySelectorAll is not a
\* function, and the listener throws after e.preventDefault() without
\* touching the list; the dragover listener of setupPageDragSort still
\* runs.  A gesture on a file item that ends without a drop on the list
\* changes nothing.
DragDrop(id, y) ==
  /\ currentTool # "none"
  /\ fileSortInstalled > 0
  /\ nextId <= MaxIds
  /\ PosOf(fileList, id) > 0
  /\ LET item == fileList[PosOf(fileList, id)]
         list == IF pageSortInstalled /\ IsPage(item)
                 THEN PageDragOver(fileList, id, y)
                 ELSE fileList
         st == DropLoop([StagingSt EXCEPT !.fileList = list], currentTool,
                        fileSortInstalled)
     IN /\ Pending(st.tasks) <= MaxItems
        /\ pickedFiles' = st.pickedFiles
        /\ fileList' = st.fileList
        /\ tasks' = st.tasks
        /\ nextId' = st.nextId
  /\ Observe
  /\ UNCHANGED <<fresh, abandoned>>
  /\ UNCHANGED <<organizePages, used, pageSortInstalled, fileSortInstalled,
                 uiVars, runVars>>

\* ------------------------------------------------------------ runOrganize
\* this.organizePages.find(p => p.element.dataset.fileIndex == fileIndex):
\* the first entry whose element carries this fileIndex, as <<entry>>, or
\* << >> for undefined (the string is compared with the number by value)
OrgFind(org, fileIndex) ==
  LET hits == {k \in 1..Len(org) : ParseInt(org[k].fileIndex) = fileIndex}
  IN IF hits = {} THEN << >> ELSE <<org[Min(hits)]>>

\* the forEach of lines 1274-1291 over the remaining selected items:
\* [error, batches]; reading .file of a missing entry throws a TypeError
RECURSIVE PlanLoop(_, _, _)
PlanLoop(items, org, batches) ==
  IF items = << >> THEN [error |-> "", batches |-> batches]
  ELSE LET item == Head(items)
           fileIndex == ParseInt(item.fileIndex)
           pageNum == ParseInt(item.pageNum)
           found == OrgFind(org, fileIndex)
       IN IF found = << >>
          THEN [error |-> "TypeError", batches |-> << >>]
          ELSE IF batches = << >> \/ batches[Len(batches)].fileIndex # fileIndex
          THEN PlanLoop(Tail(items), org,
                        Append(batches, [fileIndex |-> fileIndex,
                                         file |-> found[1].file,
                                         pages |-> <<pageNum>>]))
          ELSE PlanLoop(Tail(items), org,
                        [batches EXCEPT ![Len(batches)].pages =
                                          Append(@, pageNum)])

\* pageItems filtered by the checkbox (lines 1261-1264)
SelectedPageItems(list) ==
  SelectSeq(list, LAMBDA item : IsPage(item) /\ item.checked)

\* Plan without the guard on the selection (lines 1266-1268 left out)
PlanNoSelectionGuard(list, org) ==
  IF Len(org) = 0
  THEN [error |-> "Please upload PDF files first", batches |-> << >>]
  ELSE PlanLoop(SelectedPageItems(list), org, << >>)

\* runOrganize up to its first await: the guards and the plan
Plan(list, org) ==
  IF Len(org) = 0
  THEN [error |-> "Please upload PDF files first", batches |-> << >>]
  ELSE IF SelectedPageItems(list) = << >>
  THEN [error |-> "Please select at least one page to include",
        batches |-> << >>]
  ELSE PlanLoop(SelectedPageItems(list), org, << >>)

\* the multipart request of one batch (lines 1297-1301)
ExtractRequest(batch) ==
  [url |-> "/api/pdf/reorder", file |-> batch.file,
   order |-> Join(batch.pages), files |-> << >>]

\* a merge request that lists the documents last batch first
MergeRequestReversed(pdfs) ==
  [url |-> "/api/pdf/merge", file |-> None, order |-> << >>,
   files |-> [k \in 1..Len(pdfs) |-> pdfs[Len(pdfs) + 1 - k]]]

\* the merge request (lines 1319-1324)
MergeRequest(pdfs) ==
  [url |-> "/api/pdf/merge", file |-> None, order |-> << >>, files |-> pdfs]

\* The services, as section 6 of the design states them.  A document is
\* the sequence of its pages, a page is <<source file, page number>>.
ExtractionValid(req) ==
  \A k \in 1..Len(SplitOrder(req.order, << >>)) :
     SplitOrder(req.order, << >>)[k] \in 1..NumPages(req.file)

ExtractionResponse(req) ==
  [k \in 1..Len(SplitOrder(req.order, << >>)) |->
     <<req.file, SplitOrder(req.order, << >>)[k]>>]

\* the document a File holds, and whether the merge service can read it
Document(f) == [k \in 1..NumPages(f) |-> <<f, k>>]
Readable(f) == f \in Files /\ NumPages(f) > 0

RECURSIVE MergeResponse(_)
MergeResponse(pdfs) ==
  IF pdfs = << >> THEN << >> ELSE Head(pdfs) \o MergeResponse(Tail(pdfs))

\* response bodies of a failed request: empty, or a message
ErrorTexts == {"", "service message"}

\* new Error(message): the fields the thrown error carries
Error(message) == [message |-> message]

\* processFiles: the run has returned { success: true } (lines 584-589,
\* then finally)
Succeed ==
  /\ status' = [text |-> "Processing complete!", type |-> "success"]
  /\ timers' = timers + 1
  /\ runBtnDisabled' = FALSE
  /\ lastError' = << >>
  /\ UNCHANGED stagingVars

\* a catch that also calls clearFiles()
FailClearing(e) ==
  /\ status' = [text |-> e.message, type |-> "error"]
  /\ runBtnDisabled' = FALSE
  /\ lastError' = <<e>>
  /\ pickedFiles' = << >>
  /\ fileList' = << >>
  /\ UNCHANGED <<timers, organizePages>>

\* a catch that shows a fixed text whatever the error says
FailGeneric(e) ==
  /\ status' = [text |-> "Processing failed", type |-> "error"]
  /\ runBtnDisabled' = FALSE
  /\ lastError' = <<e>>
  /\ UNCHANGED <<timers, stagingVars>>

\* processFiles: the run has thrown e; catch and finally (lines 593-600)
Fail(e) ==
  /\ status' = [text |-> e.message, type |-> "error"]
  /\ runBtnDisabled' = FALSE
  /\ lastError' = <<e>>
  /\ UNCHANGED <<timers, stagingVars>>

\* a run that sends the requests of all batches at once
StartRunAll(batches) ==
  /\ run' = [pc |-> "extract", batches |-> batches, i |-> 1,
             extractedPdfs |-> << >>]
  /\ net' = [k \in 1..Len(batches) |-> ExtractRequest(batches[k])]

\* runOrganize from the planned batches to its first suspension (lines
\* 1293-1324): the loop sends the request of the first batch and awaits
\* it; with no batch at all the loop is skipped, extractedPdfs.length is
\* not 1 and the merge request is sent
StartRun(batches) ==
  IF batches = << >>
  THEN /\ run' = [pc |-> "merge", batches |-> batches, i |-> 0,
                  extractedPdfs |-> << >>]
       /\ net' = <<MergeRequest(<< >>)>>
  ELSE /\ run' = [pc |-> "extract", batches |-> batches, i |-> 1,
                  extractedPdfs |-> << >>]
       /\ net' = <<ExtractRequest(batches[1])>>

\* runMerge(files) to its fetch (lines 1053-1056)
RunMerge(files) ==
  /\ run' = [pc |-> "runMerge", batches |-> << >>, i |-> 0,
             extractedPdfs |-> << >>]
  /\ net' = <<[url |-> "/api/pdf/merge", file |-> None, order |-> << >>,
               files |-> files]>>

\* value of #optDeg when runRotate reads it: the first option of the select
\* built by setupRotateUI (line 683)
Angle == 90

\* runRotate(files) to its fetch (lines 1112-1117): the form carries
\* files[0] and the angle
RunRotate(files) ==
  /\ run' = [pc |-> "runRotate", batches |-> << >>, i |-> 0,
             extractedPdfs |-> << >>]
  /\ net' = <<[url |-> "/api/pdf/rotate", file |-> files[1], order |-> << >>,
               files |-> << >>, angle |-> ToStr(Angle)]>>

\* processFiles(): a click on the run button, up to the first suspension
ProcessFiles ==
  /\ ~runBtnDisabled
  /\ timers < MaxTimers
  /\ currentTool \in {"none", "reorder", "merge", "rotate"}
  /\ downloaded' = << >>
  /\ failedBatch' = NaN
  /\ included' = SelectedPageItems(fileList)
  /\ submitted' = [pickedFiles |-> pickedFiles, fileList |-> fileList,
                   organizePages |-> organizePages]
  /\ quiet' = TRUE
  /\ abandoned' = FALSE
  /\ UNCHANGED fresh
  /\ IF currentTool = "none" \/ Len(pickedFiles) = 0
     THEN /\ status' = [text |-> "Please select files first", type |-> "error"]
          /\ lastError' = << >>
          /\ planned' = << >>
          /\ UNCHANGED <<run, net, runBtnDisabled, timers, stagingVars>>
     ELSE IF currentTool = "merge"
     THEN /\ planned' = << >>
          /\ RunMerge(pickedFiles)
          /\ status' = [text |-> "Processing...", type |-> "processing"]
          /\ runBtnDisabled' = TRUE
          /\ lastError' = << >>
          /\ UNCHANGED <<timers, stagingVars>>
     ELSE IF currentTool = "rotate"
     THEN /\ planned' = << >>
          /\ RunRotate(pickedFiles)
          /\ status' = [text |-> "Processing...", type |-> "processing"]
          /\ runBtnDisabled' = TRUE
          /\ lastError' = << >>
          /\ UNCHANGED <<timers, stagingVars>>
     ELSE LET plan == Plan(fileList, organizePages) IN
          /\ planned' = plan.batches
          /\ IF plan.error # ""
             THEN /\ Fail(Error(plan.error))
                  /\ UNCHANGED <<run, net>>
             ELSE /\ StartRun(plan.batches)
                  /\ status' = [text |-> "Processing...", type |-> "processing"]
                  /\ runBtnDisabled' = TRUE
                  /\ lastError' = << >>
                  /\ UNCHANGED <<timers, stagingVars>>
  /\ reqLog' = net'
  /\ UNCHANGED <<expandVars, currentTool, placeholder>>

\* the same without the shortcut of lines 1312-1316
AfterExtractAlwaysMerge(pdfs) ==
  IF run.i < Len(run.batches)
  THEN /\ run' = [run EXCEPT !.i = @ + 1, !.extractedPdfs = pdfs]
       /\ net' = <<ExtractRequest(run.batches[run.i + 1])>>
       /\ reqLog' = reqLog \o net'
       /\ UNCHANGED <<downloaded, lastError, status, runBtnDisabled, timers,
                      stagingVars>>
  ELSE /\ run' = [run EXCEPT !.pc = "merge", !.extractedPdfs = pdfs]
       /\ net' = <<MergeRequest(pdfs)>>
       /\ reqLog' = reqLog \o net'
       /\ UNCHANGED <<downloaded, lastError, status, runBtnDisabled, timers,
                      stagingVars>>

\* a loop that reads the batches again from the list at every iteration
AfterExtractReplan(pdfs) ==
  LET batches == Plan(fileList, organizePages).batches IN
  IF run.i < Len(batches)
  THEN /\ run' = [run EXCEPT !.i = @ + 1, !.extractedPdfs = pdfs,
                             !.batches = batches]
       /\ net' = <<ExtractRequest(batches[run.i + 1])>>
       /\ reqLog' = reqLog \o net'
       /\ UNCHANGED <<downloaded, lastError, status, runBtnDisabled, timers,
                      stagingVars>>
  ELSE IF Len(pdfs) = 1
  THEN /\ run' = Idle
       /\ net' = << >>
       /\ downloaded' = <<pdfs[1]>>
       /\ Succeed
       /\ UNCHANGED reqLog
  ELSE /\ run' = [run EXCEPT !.pc = "merge", !.extractedPdfs = pdfs]
       /\ net' = <<MergeRequest(pdfs)>>
       /\ reqLog' = reqLog \o net'
       /\ UNCHANGED <<downloaded, lastError, status, runBtnDisabled, timers,
                      stagingVars>>

\* what runOrganize does once batch run.i has been extracted and
\* extractedPdfs is pdfs: the next extraction, the direct download of a
\* single batch, or the merge request (lines 1296-1324)
AfterExtract(pdfs) ==
  IF run.i < Len(run.batches)
  THEN /\ run' = [run EXCEPT !.i = @ + 1, !.extractedPdfs = pdfs]
       /\ net' = <<ExtractRequest(run.batches[run.i + 1])>>
       /\ reqLog' = reqLog \o net'
       /\ UNCHANGED <<downloaded, lastError, status, runBtnDisabled, timers,
                      stagingVars>>
  ELSE IF Len(pdfs) = 1
  THEN /\ run' = Idle
       /\ net' = << >>
       /\ downloaded' = <<pdfs[1]>>
       /\ Succeed
       /\ UNCHANGED reqLog
  ELSE /\ run' = [run EXCEPT !.pc = "merge", !.extractedPdfs = pdfs]
       /\ net' = <<MergeRequest(pdfs)>>
       /\ reqLog' = reqLog \o net'
       /\ UNCHANGED <<downloaded, lastError, status, runBtnDisabled, timers,
                      stagingVars>>

\* the response of /api/pdf/reorder for batch run.i arrives with res.ok
\* (lines 1308-1309, then the rest of the loop)
ExtractOk ==
  /\ run.pc = "extract"
  /\ \E k \in 1..Len(net) :
        /\ net[k].url = "/api/pdf/reorder"
        /\ ExtractionValid(net[k])
        /\ AfterExtract(Append(run.extractedPdfs, ExtractionResponse(net[k])))
  /\ UNCHANGED <<expandVars, currentTool, placeholder, failedBatch, planned,
                 included, submitted, quiet, fresh, abandoned>>

\* a loop that notes the failed batch and goes on with the next one
ExtractFailedContinue(errorText) ==
  /\ run.pc = "extract"
  /\ run.i < Len(run.batches)
  /\ failedBatch' = run.i - 1
  /\ run' = [run EXCEPT !.i = @ + 1]
  /\ net' = <<ExtractRequest(run.batches[run.i + 1])>>
  /\ reqLog' = reqLog \o net'
  /\ UNCHANGED <<stagingVars, expandVars, uiVars, downloaded, lastError,
                 planned, included, submitted, quiet, fresh, abandoned>>

\* a loop that sends the request of a failed batch once more before it
\* gives up
ExtractFailedRetry(errorText) ==
  /\ run.pc = "extract"
  /\ IF Len(reqLog) = run.i
     THEN /\ net' = net
          /\ reqLog' = reqLog \o net
          /\ UNCHANGED <<run, stagingVars, expandVars, uiVars, downloaded,
                         lastError, failedBatch, planned, included, submitted,
                         quiet, fresh, abandoned>>
     ELSE /\ run' = Idle
          /\ net' = << >>
          /\ failedBatch' = run.i - 1
          /\ Fail(Error(IF errorText # "" THEN errorText
                        ELSE "Failed to extract pages"))
          /\ UNCHANGED <<expandVars, currentTool, placeholder, reqLog,
                         downloaded, planned, included, submitted, quiet,
                         fresh, abandoned>>

\* the response of /api/pdf/reorder arrives with !res.ok and body
\* errorText: runOrganize throws and returns (lines 1303-1306)
ExtractFailed(errorText) ==
  /\ run.pc = "extract"
  /\ run' = Idle
  /\ net' = << >>
  /\ failedBatch' = run.i - 1
  /\ Fail(Error(IF errorText # "" THEN errorText ELSE "Failed to extract pages"))
  /\ UNCHANGED <<expandVars, currentTool, placeholder, reqLog, downloaded,
                 planned, included, submitted, quiet, fresh, abandoned>>

\* the response of /api/pdf/merge arrives with res.ok (lines 1331-1333)
MergeOk ==
  /\ run.pc = "merge"
  /\ run' = Idle
  /\ downloaded' = <<MergeResponse(net[1].files)>>
  /\ net' = << >>
  /\ Succeed
  /\ UNCHANGED <<expandVars, currentTool, placeholder, reqLog, failedBatch,
                 planned, included, submitted, quiet, fresh, abandoned>>

\* the response of /api/pdf/merge arrives with !res.ok and body errorText
\* (lines 1326-1329)
MergeFailed(errorText) ==
  /\ run.pc = "merge"
  /\ run' = Idle
  /\ net' = << >>
  /\ Fail(Error(IF errorText # "" THEN errorText ELSE "Merge failed"))
  /\ UNCHANGED <<expandVars, currentTool, placeholder, reqLog, downloaded,
                 failedBatch, planned, included, submitted, quiet, fresh, abandoned>>

\* runMerge: the response arrives with res.ok (lines 1063-1065); the
\* service can answer so when it can read every file
RunMergeOk ==
  /\ run.pc = "runMerge"
  /\ \A k \in 1..Len(net[1].files) : Readable(net[1].files[k])
  /\ run' = Idle
  /\ downloaded' =
       <<MergeResponse([k \in 1..Len(net[1].files) |-> Document(net[1].files[k])])>>
  /\ net' = << >>
  /\ Succeed
  /\ UNCHANGED <<expandVars, currentTool, placeholder, reqLog, failedBatch,
                 planned, included, submitted, quiet, fresh, abandoned>>

\* runMerge: the response arrives with !res.ok (lines 1058-1061)
RunMergeFailed(errorText) ==
  /\ run.pc = "runMerge"
  /\ run' = Idle
  /\ net' = << >>
  /\ Fail(Error(IF errorText # "" THEN errorText ELSE "Merge failed"))
  /\ UNCHANGED <<expandVars, currentTool, placeholder, reqLog, downloaded,
                 failedBatch, planned, included, submitted, quiet, fresh, abandoned>>

\* the rotate service: every page of the document turned by the angle
Rotated(doc, angle) == [k \in 1..Len(doc) |-> <<doc[k][1], doc[k][2], angle>>]

\* runRotate: the response arrives with res.ok (lines 1124-1126); the
\* service can answer so when it can read the file
RunRotateOk ==
  /\ run.pc = "runRotate"
  /\ Readable(net[1].file)
  /\ run' = Idle
  /\ downloaded' = <<Rotated(Document(net[1].file), ParseInt(net[1].angle))>>
  /\ net' = << >>
  /\ Succeed
  /\ UNCHANGED <<expandVars, currentTool, placeholder, reqLog, failedBatch,
                 planned, included, submitted, quiet, fresh, abandoned>>

\* runRotate: the response arrives with !res.ok (lines 1119-1122)
RunRotateFailed(errorText) ==
  /\ run.pc = "runRotate"
  /\ run' = Idle
  /\ net' = << >>
  /\ Fail(Error(IF errorText # "" THEN errorText ELSE "Rotation failed"))
  /\ UNCHANGED <<expandVars, currentTool, placeholder, reqLog, downloaded,
                 failedBatch, planned, included, submitted, quiet, fresh, abandoned>>

\* the timeout set at line 587 fires: clearStatus()
StatusTimeout ==
  /\ timers > 0
  /\ timers' = timers - 1
  /\ status' = NoStatus
  /\ UNCHANGED <<stagingVars, expandVars, currentTool, placeholder,
                 runBtnDisabled, runVars, histVars>>

\* ------------------------------------------------------------ the claims
\* the included pages at submit time as (source document, page number)
IncludedPages ==
  [k \in 1..Len(included) |-> <<included[k].file, ParseInt(included[k].pageNum)>>]

\* number of maximal runs of equal neighbours in a sequence
RECURSIVE Runs(_)
Runs(s) ==
  IF Len(s) = 0 THEN 0
  ELSE IF Len(s) = 1 THEN 1
  ELSE (IF s[1] = s[2] THEN 0 ELSE 1) + Runs(Tail(s))

\* per page of the planned batches, in order: the page number, and the file
\* attached to its batch
RECURSIVE BatchPageNums(_)
BatchPageNums(batches) ==
  IF batches = << >> THEN << >>
  ELSE Head(batches).pages \o BatchPageNums(Tail(batches))

RECURSIVE BatchPageFiles(_)
BatchPageFiles(batches) ==
  IF batches = << >> THEN << >>
  ELSE [k \in 1..Len(Head(batches).pages) |-> Head(batches).file]
       \o BatchPageFiles(Tail(batches))

IsMerge(req) == req.url = "/api/pdf/merge"
MergesLogged == Cardinality({k \in 1..Len(reqLog) : IsMerge(reqLog[k])})
Delivered == run.pc = "idle" /\ downloaded # << >>
RequestFailed == run.pc = "idle" /\ lastError # << >> /\ reqLog # << >>

\* C1 (order preservation): the document a successful run delivers is the
\* sequence of (source document, page number) of the pages that were
\* included, in display order, when the run was submitted.
C1_OrderPreservation ==
  Delivered => downloaded[1] = IncludedPages

\* C2 (batch minimality): the planned batches are as many as the maximal
\* runs of the included pages by source document, none is empty, adjacent
\* batches have different source documents, and their page lists
\* concatenated are the included sequence.
C2_BatchMinimality ==
  planned # << >> =>
    /\ Len(planned) = Runs([k \in 1..Len(included) |-> included[k].file])
    /\ \A i \in 1..Len(planned) : planned[i].pages # << >>
    /\ \A i \in 1..(Len(planned) - 1) : planned[i].file # planned[i + 1].file
    /\ BatchPageNums(planned) =
         [k \in 1..Len(included) |-> ParseInt(included[k].pageNum)]

\* C3: the file attached to a planned batch is the document every page of
\* the batch was expanded from.
C3_BatchFileIsSource ==
  planned # << >> =>
    BatchPageFiles(planned) = [k \in 1..Len(included) |-> included[k].file]

\* C4 (single-batch shortcut): when exactly one batch is planned the run
\* sends no merge request, and what it delivers is the response of its one
\* extraction request.
C4_SingleBatchShortcut ==
  Len(planned) = 1 =>
    /\ MergesLogged = 0
    /\ Delivered => /\ Len(reqLog) = 1
                    /\ downloaded[1] = ExtractionResponse(reqLog[1])

C4_Witness ==
  Delivered /\ Len(planned) = 1 /\ Len(included) = 2

\* C5: with more than one batch planned the run sends at most one merge
\* request, none while an extraction is awaited, and once every extraction
\* has succeeded exactly one, last in the run, listing the extraction
\* results in batch order.
C5_OneMergeInBatchOrder ==
  Len(planned) > 1 =>
    /\ MergesLogged <= 1
    /\ run.pc = "extract" => MergesLogged = 0
    /\ (run.pc = "merge" \/ Delivered) =>
         reqLog = [k \in 1..Len(planned) |-> ExtractRequest(planned[k])] \o
                  <<[url |-> "/api/pdf/merge", file |-> None, order |-> << >>,
                     files |-> [k \in 1..Len(planned) |->
                       ExtractionResponse(ExtractRequest(planned[k]))]]>>
    /\ run.pc = "merge" => net = <<reqLog[Len(reqLog)]>>

C5_Witness ==
  Delivered /\ Len(planned) = 3

\* the batch index an error object refers to
ErrBatchIndex(e) == IF "batchIndex" \in DOMAIN e THEN e.batchIndex ELSE NaN

\* what follows the failed extraction of the second of three batches: the
\* run has ended with an error, only the first two extraction requests
\* were sent, nothing was downloaded
FailFast ==
  /\ run.pc = "idle" /\ net = << >>
  /\ lastError # << >>
  /\ reqLog = <<ExtractRequest(planned[1]), ExtractRequest(planned[2])>>
  /\ downloaded = << >>

C7_Sequential ==
  /\ Len(net) <= 1
  /\ run.pc = "extract" =>
       /\ Len(reqLog) = run.i
       /\ Len(run.extractedPdfs) = run.i - 1
       /\ net = <<ExtractRequest(run.batches[run.i])>>

C7_Witness ==
  run.pc = "extract" /\ run.i = 2 /\ Len(net) = 1

\* runOrganize was called on a staging sequence with no included page
SubmittedEmpty ==
  quiet /\ currentTool = "reorder" /\ Len(submitted.pickedFiles) > 0
        /\ included = << >>

\* C8 (empty-selection guard): with zero included pages at submit time
\* runOrganize fails in its guards (lines 1255-1268) before any request is
\* sent: with the error 'Please select at least one page to include', or,
\* when organizePages itself is empty, with 'Please upload PDF files
\* first'; and no run delivers an empty document.
C8_EmptyGuard ==
  /\ SubmittedEmpty =>
       /\ run.pc = "idle" /\ reqLog = << >> /\ downloaded = << >>
       /\ lastError =
            <<[message |-> IF submitted.organizePages = << >>
                           THEN "Please upload PDF files first"
                           ELSE "Please select at least one page to include"]>>
  /\ Delivered => included # << >> /\ downloaded[1] # << >>

C8_Witness ==
  /\ SubmittedEmpty
  /\ lastError = <<[message |-> "Please select at least one page to include"]>>
  /\ \E k \in 1..Len(fileList) : IsPage(fileList[k])

\* C9: after a failed extraction or merge request, nothing but the run
\* having acted, the staged files, the page sequence with its inclusion
\* flags and organizePages are as they were at submit time, and a resubmit
\* plans the same batches.
C9_FailureKeepsStaging ==
  (quiet /\ RequestFailed) =>
    /\ pickedFiles = submitted.pickedFiles
    /\ fileList = submitted.fileList
    /\ organizePages = submitted.organizePages
    /\ Plan(fileList, organizePages) = [error |-> "", batches |-> planned]

C9_Witness ==
  quiet /\ RequestFailed /\ Len(planned) = 2 /\ MergesLogged = 1

\* C10 (idempotent expansion): no page of a document is entered twice,
\* neither in the file list nor in organizePages.
C10_NoDuplicatePages ==
  /\ \A i, j \in 1..Len(organizePages) :
       (organizePages[i].file = organizePages[j].file
        /\ organizePages[i].pageNum = organizePages[j].pageNum) => i = j
  /\ \A i, j \in 1..Len(fileList) :
       (IsPage(fileList[i]) /\ IsPage(fileList[j])
        /\ fileList[i].file = fileList[j].file
        /\ fileList[i].pageNum = fileList[j].pageNum) => i = j

\* the list with the item at position k taken out and put back so that y of
\* the other items come before it
Relocated(list, k, y) ==
  LET others == RemoveAt(list, k)
  IN SubSeq(others, 1, y) \o <<list[k]>> \o SubSeq(others, y + 1, Len(others))

AllPages(list) == \A i \in 1..Len(list) : IsPage(list[i])

\* C12: a page dragged with the pointer above the midpoint of page P and
\* below the midpoints of all pages before P ends immediately before P; it
\* ends last only when the pointer is below the midpoint of every other page.
C12_DragPlacesBeforeTarget ==
  [][\A k \in 1..Len(fileList) : \A y \in 0..(Len(fileList) - 1) :
       (AllPages(fileList) /\ DragPage(fileList[k].id, y))
         => fileList' = Relocated(fileList, k, y)]_vars

\* C13 (move stability): a page moved to another position and then moved
\* back to its original position leaves the staging sequence as it was
\* before the two moves.
C13_MoveStability ==
  [][\A k \in 1..Len(fileList) : \A y \in 0..(Len(fileList) - 1) :
       (AllPages(fileList) /\ DragPage(fileList[k].id, y) /\ fileList' # fileList)
         => PageDragOver(fileList', fileList[k].id, k - 1) = fileList]_vars

\* the store is observable as empty: no file is staged, the upload
\* placeholder is shown, and processFiles rejects a submit at its guard
\* (lines 572-575)
StoreEmpty == pickedFiles = << >> /\ placeholder

\* C16: removing the last remaining staged item, a file with removeFile or
\* a page with removePage, leaves the store empty: pickedFiles is empty and
\* the upload placeholder is shown, so that a following submit is rejected
\* for having no files.
C16_RemoveLastEmptiesStore ==
  [][(Len(fileList) = 1 /\ tasks = {}
       /\ \/ IsPage(fileList[1]) /\ RemovePage(fileList[1].id)
          \/ ~IsPage(fileList[1]) /\ RemoveFile(ParseInt(fileList[1].index)))
     => StoreEmpty']_vars

\* C11: a completed drag gesture on a page in the organize tool, with or
\* without a drop on the list and whatever tools were opened before,
\* relocates only that page: the list after the gesture is the list before
\* it with the page at some position and the other items in their order,
\* and no staged document is lost.
C11_DragRelocatesOnlyThePage ==
  [][\A k \in 1..Len(fileList) : \A y \in 0..(Len(fileList) - 1) :
       (/\ currentTool = "reorder" /\ IsPage(fileList[k])
        /\ DragPage(fileList[k].id, y) \/ DragDrop(fileList[k].id, y))
         => /\ \E j \in 1..Len(fileList') :
                 /\ fileList'[j] = fileList[k]
                 /\ RemoveAt(fileList', j) = RemoveAt(fileList, k)
            /\ pickedFiles' = pickedFiles]_vars

\* the files of the items of the list, in display order
DisplayedFiles == [k \in 1..Len(fileList) |-> fileList[k].file]

\* C14: in a sortable whole-file tool a completed drag gesture that drops
\* file X with y of the other files above the pointer leaves pickedFiles
\* with X immediately before the file whose midpoint is below the pointer
\* (last when there is none), the other files in their order.
C14_DropReordersPickedFiles ==
  [][\A k \in 1..Len(fileList) : \A y \in 0..(Len(fileList) - 1) :
       (/\ currentTool \in SortableTools /\ ~IsPage(fileList[k])
        /\ DisplayedFiles = pickedFiles
        /\ DragDrop(fileList[k].id, y))
         => pickedFiles' = Relocated(pickedFiles, k, y)]_vars

\* C15: in the whole-file tools, between handlers, pickedFiles is the
\* files of the file items in display order.
C15_PickedFilesInDisplayOrder ==
  (currentTool \in SessionTools \ {"reorder"}) => DisplayedFiles = pickedFiles

\* the files of an intake that the accept filter of the tool rejects
Rejected(tool, list) == {f \in Range(list) : ~Accepted(tool, f)}

\* C17: a file the accept filter rejects is not added to pickedFiles or to
\* the list, an error status is shown, the other files of the intake are
\* still processed, and a store that was empty before an intake whose files
\* are all rejected is still empty, the upload placeholder shown.
C17_RejectedAtIntake ==
  [][\A n \in 1..2 : \A list \in DistinctSeqsOfLen(SessionFiles \ used, n) :
       HandleAddFiles(list) =>
         /\ \A f \in Rejected(currentTool, list) :
               /\ f \notin Range(pickedFiles')
               /\ f \notin Range(DisplayedFiles')
               /\ \A t \in tasks' : t.file # f
         /\ Rejected(currentTool, list) # {} => status'.type = "error"
         /\ ToolMultiple(currentTool) =>
               \A f \in Range(list) \ Rejected(currentTool, list) :
                  f \in Range(pickedFiles')
         /\ (StoreEmpty /\ Rejected(currentTool, list) = Range(list))
               => StoreEmpty']_vars

\* C18: in a tool with multiple: false pickedFiles holds at most one file
\* and the list shows at most one item, and an intake while one document
\* is staged replaces it with a document of the intake.
C18_SingleItemTool ==
  /\ [](((currentTool # "none") /\ ~ToolMultiple(currentTool))
         => (Len(pickedFiles) <= 1 /\ Len(fileList) <= 1))
  /\ [][\A n \in 1..2 : \A list \in DistinctSeqsOfLen(SessionFiles \ used, n) :
         (/\ currentTool # "none" /\ ~ToolMultiple(currentTool)
          /\ Len(pickedFiles) = 1
          /\ Rejected(currentTool, list) # Range(list)
          /\ HandleAddFiles(list))
           => /\ Len(pickedFiles') = 1
              /\ pickedFiles'[1] \in Range(list) \ Rejected(currentTool, list)]_vars

\* C19: from a reset of the staging session (setTool, goHome) until the
\* next file intake the list and organizePages are empty.
C19_EmptyAfterReset ==
  fresh => (fileList = << >> /\ organizePages = << >>)

\* C20: when the user went home or switched tool while a run was in
\* flight, the run delivers no document and shows no completion status.
C20_AbandonedRunDiscarded ==
  abandoned => (downloaded = << >> /\ status.type # "success")

\* the requests a run with these batches issues when every request
\* succeeds: one extraction per batch, in batch order, then, unless there
\* is exactly one batch, one merge of the extracted documents
ExpectedRequests(batches) ==
  [k \in 1..Len(batches) |-> ExtractRequest(batches[k])] \o
  (IF Len(batches) = 1 THEN << >>
   ELSE <<MergeRequest([k \in 1..Len(batches) |->
                          ExtractionResponse(ExtractRequest(batches[k]))])>>)

IsPrefix(s, t) == Len(s) <= Len(t) /\ s = SubSeq(t, 1, Len(s))

\* C21: the requests a run issues are those of the batches planned at
\* submit, in that order, whatever page moves, removals and inclusion
\* toggles happen while its requests are awaited: the requests issued so
\* far are a prefix of the planned ones, the request awaited is the last
\* of them, and a run that delivers has issued all of them.
C21_RequestsFromSubmitSnapshot ==
  planned # << >> =>
    /\ IsPrefix(reqLog, ExpectedRequests(planned))
    /\ run.pc # "idle" => (run.batches = planned /\ net = <<reqLog[Len(reqLog)]>>)
    /\ Delivered => reqLog = ExpectedRequests(planned)

C21_Witness ==
  Delivered /\ Len(planned) = 2 /\ fileList = << >>

\* C22: a thumbnail render failure does not block reconstruction: whatever
\* pages failed to render, a submit with included pages issues extraction
\* requests, it is neither rejected nor does it throw.
C22_RenderFailureDoesNotBlock ==
  (quiet /\ currentTool = "reorder" /\ included # << >>) =>
    /\ reqLog # << >>
    /\ lastError = << >> \/ RequestFailed

\* the pages of the documents `files`, document after document
RECURSIVE ExpandedSequence(_)
ExpandedSequence(files) ==
  IF files = << >> THEN << >>
  ELSE Document(Head(files)) \o ExpandedSequence(Tail(files))

\* C23: once every pending expansion has completed, with no rearrangement
\* by the user, the list holds the (readable) documents in intake order,
\* each with its pages 1..pageCount ascending and included; pages of
\* different documents are not interleaved.
C23_ExpansionInIntakeOrder ==
  (tasks = {} /\ \A i \in 1..Len(pickedFiles) : Readable(pickedFiles[i])) =>
    /\ [k \in 1..Len(fileList) |->
          <<fileList[k].file, ParseInt(fileList[k].pageNum)>>]
         = ExpandedSequence(pickedFiles)
    /\ \A k \in 1..Len(fileList) : fileList[k].checked

\* C24: the original page number and the owning document of a page never
\* change after the page is created: a page item that is in the list before
\* and after a step carries the same pageNum, fileIndex and file, and an
\* entry of organizePages for the same element the same file and pageNum;
\* only the position and the inclusion flag of a page change.
C24_PageIdentityFixed ==
  [][/\ \A i \in 1..Len(fileList) : \A j \in 1..Len(fileList') :
          (IsPage(fileList[i]) /\ fileList'[j].id = fileList[i].id)
            => fileList'[j] = [fileList[i] EXCEPT !.checked = fileList'[j].checked]
     /\ \A i \in 1..Len(organizePages) : \A j \in 1..Len(organizePages') :
          organizePages'[j].element = organizePages[i].element
            => organizePages'[j] = organizePages[i]]_vars

\* a delivered run on a list in which page 2 of a document stands before
\* its page 1 and a page is excluded
C24_Witness ==
  /\ Delivered
  /\ \E i, j \in 1..Len(fileList) :
        /\ i < j /\ IsPage(fileList[i]) /\ IsPage(fileList[j])
        /\ fileList[i].file = fileList[j].file
        /\ ParseInt(fileList[i].pageNum) > ParseInt(fileList[j].pageNum)
        /\ ~fileList[j].checked

\* C25: in the Rotate tool a run with k >= 1 staged files sends every
\* staged file to the rotate service.
C25_RotateEveryFile ==
  (quiet /\ run.pc = "runRotate") =>
    \A i \in 1..Len(submitted.pickedFiles) :
       \E k \in 1..Len(reqLog) :
          /\ reqLog[k].url = "/api/pdf/rotate"
          /\ reqLog[k].file = submitted.pickedFiles[i]

\* the extraction requests logged by the current / last run
ExtractsLogged == Len(reqLog) - MergesLogged

\* C26 (no automatic retry): within one run the k-th extraction request is
\* that of the k-th planned batch, so that no batch is requested twice,
\* and at most one merge request is sent; once the run has ended, with a
\* failure or not, no request is outstanding, after a failed extraction
\* the failed request is the last one issued, and a request is issued
\* again only by a submit of the user.
C26_NoAutomaticRetry ==
  /\ [](/\ ExtractsLogged <= Len(planned)
        /\ \A k \in 1..ExtractsLogged : reqLog[k] = ExtractRequest(planned[k])
        /\ MergesLogged <= 1
        /\ run.pc = "idle" => net = << >>
        /\ (RequestFailed /\ failedBatch # NaN) => Len(reqLog) = failedBatch + 1)
  /\ [][(run.pc = "idle" /\ net' # << >>) => ProcessFiles]_vars

\* the first of two batches has failed: its request is the only one issued
C26_Witness ==
  RequestFailed /\ Len(planned) = 2 /\ failedBatch = 0 /\ Len(reqLog) = 1

\* the message of a failed request whose response body is errorText
ServiceMessage(errorText, fallback) ==
  IF errorText # "" THEN errorText ELSE fallback

\* the error e has been caught and is displayed as the error status
Surfaced(e) == lastError = <<e>> /\ status = [text |-> e.message, type |-> "error"]

\* C27: when an extraction or merge request fails with response body
\* errorText, the error caught and the error status displayed carry
\* errorText, and the fallback text ('Failed to extract pages', 'Merge
\* failed') exactly when errorText is empty.
C27_ErrorCarriesServiceMessage ==
  [][\A errorText \in ErrorTexts :
       /\ ExtractFailed(errorText) =>
            Surfaced(Error(ServiceMessage(errorText, "Failed to extract pages")))'
       /\ MergeFailed(errorText) =>
            Surfaced(Error(ServiceMessage(errorText, "Merge failed")))']_vars

C27_Witness ==
  /\ RequestFailed /\ MergesLogged = 1
  /\ status = [text |-> "service message", type |-> "error"]

WholeFileTools == SessionTools \ {"reorder"}

C29_RunButtonDisabledWhileRunning ==
  /\ [](/\ runBtnDisabled <=> (run.pc # "idle")
        /\ Len(net) <= 1)
  /\ [][run.pc # "idle" => (~ProcessFiles /\ reqLog' = reqLog)]_vars

\* a run is in flight, the user has switched tool and staged a file in the
\* new tool
C29_Witness ==
  abandoned /\ run.pc # "idle" /\ runBtnDisabled /\ pickedFiles # << >>

\* C30: the status clear scheduled after a successful run clears only the
\* 'Processing complete!' message of that run: when the timeout fires the
\* status is that message, or is empty already; it never erases a status
\* set by a later operation.
C30_DelayedClearOnlyOwnMessage ==
  [][StatusTimeout =>
       status \in {NoStatus,
                   [text |-> "Processing complete!", type |-> "success"]}]_vars

\* ---------------------------------------------------------- the program
\* Spec: one session of the Organize PDF tool.  The user acts (adds and
\* removes files, removes, toggles and drags pages) only while no page
\* expansion and no run is in flight, submits when no expansion is in
\* flight, and may submit again once the run has ended.
Patient == tasks = {} /\ run.pc = "idle"

Next ==
  \/ \E key \in Tools : currentTool = "none" /\ SetTool(key)
  \/ \E n \in 1..MaxFiles : \E list \in DistinctSeqsOfLen(Files \ used, n) :
       Patient /\ HandleAddFiles(list)
  \/ \E k \in 1..Len(fileList) :
       /\ Patient /\ ~IsPage(fileList[k])
       /\ RemoveFile(ParseInt(fileList[k].index))
  \/ \E t \in tasks : LoadDone(t)
  \/ \E t \in tasks : GetPageDone(t)
  \/ \E t \in tasks : \E ok \in BOOLEAN : RenderDone(t, ok)
  \/ \E k \in 1..Len(fileList) :
       Patient /\ IsPage(fileList[k]) /\ RemovePage(fileList[k].id)
  \/ \E k \in 1..Len(fileList) :
       Patient /\ IsPage(fileList[k]) /\ ToggleCheckbox(fileList[k].id)
  \/ \E k \in 1..Len(fileList) : \E y \in 0..(Len(fileList) - 1) :
       Patient /\ IsPage(fileList[k]) /\ DragPage(fileList[k].id, y)
  \/ tasks = {} /\ ProcessFiles
  \/ ExtractOk
  \/ \E errorText \in ErrorTexts : ExtractFailed(errorText)
  \/ MergeOk
  \/ \E errorText \in ErrorTexts : MergeFailed(errorText)
  \/ StatusTimeout

Spec == Init /\ [][Next]_vars

\* SpecSession: one app session over several tools.  The user opens tools
\* and goes home at any moment, also while page expansions or a run are in
\* flight, adds files (PDFs and an image), removes files, drags items with
\* and without a drop on the list, and submits.  The merge service answers
\* every request of these sessions with 200.

NextSession ==
  \/ \E key \in SessionTools : key # currentTool /\ SetTool(key)
  \/ GoHome
  \/ \E n \in 1..2 : \E list \in DistinctSeqsOfLen(SessionFiles \ used, n) :
       HandleAddFiles(list)
  \/ \E k \in 1..Len(fileList) :
       /\ currentTool # "none" /\ ~IsPage(fileList[k])
       /\ RemoveFile(ParseInt(fileList[k].index))
  \/ \E t \in tasks : LoadDone(t)
  \/ \E t \in tasks : GetPageDone(t)
  \/ \E t \in tasks : RenderDone(t, TRUE)
  \/ \E k \in 1..Len(fileList) : \E y \in 0..(Len(fileList) - 1) :
       currentTool # "none" /\ IsPage(fileList[k]) /\ DragPage(fileList[k].id, y)
  \/ \E k \in 1..Len(fileList) : \E y \in 0..(Len(fileList) - 1) :
       DragDrop(fileList[k].id, y)
  \/ currentTool # "none" /\ ProcessFiles
  \/ ExtractOk
  \/ MergeOk
  \/ RunMergeOk
  \/ StatusTimeout

SpecSession == Init /\ [][NextSession]_vars

\* SpecBusy: one session of the Organize PDF tool in which the user goes on
\* removing, toggling and dragging pages while a run is in flight.
BusyFiles == {2, 3}

NextBusy ==
  \/ currentTool = "none" /\ SetTool("reorder")
  \/ \E n \in 1..2 : \E list \in DistinctSeqsOfLen(BusyFiles \ used, n) :
       Patient /\ HandleAddFiles(list)
  \/ \E t \in tasks : LoadDone(t)
  \/ \E t \in tasks : GetPageDone(t)
  \/ \E t \in tasks : RenderDone(t, TRUE)
  \/ \E k \in 1..Len(fileList) :
       tasks = {} /\ IsPage(fileList[k]) /\ RemovePage(fileList[k].id)
  \/ \E k \in 1..Len(fileList) :
       tasks = {} /\ IsPage(fileList[k]) /\ ToggleCheckbox(fileList[k].id)
  \/ \E k \in 1..Len(fileList) : \E y \in 0..(Len(fileList) - 1) :
       tasks = {} /\ IsPage(fileList[k]) /\ DragPage(fileList[k].id, y)
  \/ tasks = {} /\ ProcessFiles
  \/ ExtractOk
  \/ MergeOk
  \/ StatusTimeout

SpecBusy == Init /\ [][NextBusy]_vars

\* SpecExpand: intakes and page expansions in the Organize PDF tool with no
\* rearrangement by the user; files are added in one intake or in several,
\* also while earlier expansions are in flight, and a render may fail.
NextExpand ==
  \/ currentTool = "none" /\ SetTool("reorder")
  \/ \E n \in 1..MaxFiles : \E list \in DistinctSeqsOfLen(Files \ used, n) :
       HandleAddFiles(list)
  \/ \E t \in tasks : LoadDone(t)
  \/ \E t \in tasks : GetPageDone(t)
  \/ \E t \in tasks : \E ok \in BOOLEAN : RenderDone(t, ok)

SpecExpand == Init /\ [][NextExpand]_vars

\* SpecRuns: one app session over the whole-file tools Merge and Rotate.
\* The user opens the tools and goes home at any moment, also while a run
\* is in flight, adds files (PDFs and an image), removes files and submits;
\* the services answer with 200 or with an error.
RunTools == {"merge", "rotate"}

NextRuns ==
  \/ \E key \in RunTools : key # currentTool /\ SetTool(key)
  \/ GoHome
  \/ \E n \in 1..2 : \E list \in DistinctSeqsOfLen(SessionFiles \ used, n) :
       HandleAddFiles(list)
  \/ \E k \in 1..Len(fileList) :
       /\ currentTool # "none" /\ ~IsPage(fileList[k])
       /\ RemoveFile(ParseInt(fileList[k].index))
  \/ currentTool # "none" /\ ProcessFiles
  \/ RunMergeOk
  \/ \E errorText \in ErrorTexts : RunMergeFailed(errorText)
  \/ RunRotateOk
  \/ \E errorText \in ErrorTexts : RunRotateFailed(errorText)
  \/ StatusTimeout

SpecRuns == Init /\ [][NextRuns]_vars

====
